---- MODULE Spec2Model ----
(***************************************************************************)
(* Answer-analysis pipeline of the Smart Assignment Analysis System:       *)
(* TF-IDF similarity, clustering with its fallbacks, weak-concept          *)
(* detection and scoring (src/analysis, src/app.py), the reports derived   *)
(* from them (src/feedback), and the file-backed storage of an analysis    *)
(* run behind the Flask session (src/app.py).                              *)
(*                                                                         *)
(* An answer string is modelled as the sequence of its whitespace-split    *)
(* words; two answers are the same string iff the sequences are equal.     *)
(* Real numbers are fixed-point integers: similarities in thousandths      *)
(* inside the similarity matrix, avg_similarity and the scores in          *)
(* hundredths (the code rounds both to 2 decimals).                        *)
(***************************************************************************)
EXTENDS Integers, Sequences, FiniteSets, TLC

VARIABLES
    answers,        \* core run: the answer list of one question
    max_clusters,   \* core run: the max_clusters argument of cluster_answers
    ins,            \* core run: outcome of analyze_grouped_answers for the question
    cl,             \* core run: outcome of cluster_answers
    weak,           \* core run: outcome of detect_weak_concepts
    sc,             \* core run: outcome of calculate_scores
    pc,             \* core run: the next component to run
    sin,            \* function run: the arguments of the function applied
    sout,           \* function run: the result of the function
    derived,        \* function run: what the summary and feedback modules derive
    session,        \* web: the Flask session of each browser
    files,          \* web: exports/feedback_reports/analysis_<id>.json, by id
    response,       \* web: the last response sent
    written,        \* web (history): overrides save_feedback wrote for the current run
    uploaded,       \* web (history): what each session's latest upload computed
    clock,          \* threaded server: datetime.now() to the second
    reports,        \* threaded server: exports/feedback_reports/assignment_report_*, by path
    inflight,       \* threaded server: the request each session's thread is serving
    requests        \* threaded server: how many export requests have written a report

vars == <<answers, max_clusters, ins, cl, weak, sc, pc, sin, sout, derived,
          session, files, response, written, uploaded, clock, reports, inflight, requests>>

coreVars == <<answers, max_clusters, ins, cl, weak, sc, pc>>
scoreVars == <<sin, sout, derived>>
threadVars == <<clock, reports, inflight, requests>>
webVars == <<session, files, response, written, uploaded, threadVars>>

\* ---------------------------------------------------------------- bounds
MaxAnswers == 4
MaxTotal == 5
MaxFiles == 2
MaxClock == 1
MaxRequests == 3
MaxResponses == 402

\* ------------------------------------------------------- program constants
DefaultMaxClusters == 5

NotRun == [not_run |-> TRUE]
NoToken == "<none>"

\* ------------------------------------------------------------ the inputs
\* Words the answers are made of.  "the" is an English stop word; "Cat" and
\* "cat" are different strings with the same token.
Words == {"the", "is", "cat", "Cat", "dog"}

\* Answers the runs draw from (each a trimmed, non-empty string).
AnswerPool ==
    { <<"the">>, <<"cat">>, <<"Cat">>, <<"dog">>, <<"cat", "dog">> }

MaxClustersPool == {2, 3, DefaultMaxClusters}

RECURSIVE SeqsUpTo(_, _)
SeqsUpTo(S, n) ==
    IF n = 0 THEN { <<>> }
    ELSE LET shorter == SeqsUpTo(S, n - 1)
         IN  shorter \cup { Append(s, x) : s \in { t \in shorter : Len(t) = n - 1 }, x \in S }

AnswerLists == SeqsUpTo(AnswerPool, MaxAnswers)

\* ------------------------------------------------------------- arithmetic
Min(a, b) == IF a <= b THEN a ELSE b
Max(a, b) == IF a >= b THEN a ELSE b

Range(s) == { s[i] : i \in DOMAIN s }

RECURSIVE SumSeq(_)
SumSeq(s) == IF s = <<>> THEN 0 ELSE Head(s) + SumSeq(Tail(s))

\* Python round(): the integer nearest num/den, ties to the even one.
RoundHalfEven(num, den) ==
    LET q == num \div den
        r == num % den
    IN  IF 2 * r < den THEN q
        ELSE IF 2 * r > den THEN q + 1
        ELSE IF q % 2 = 0 THEN q ELSE q + 1

\* The least r in lo..hi with r * r >= x (hi * hi >= x is required).
RECURSIVE CeilSqrtIn(_, _, _)
CeilSqrtIn(x, lo, hi) ==
    IF lo >= hi THEN hi
    ELSE LET mid == (lo + hi) \div 2
         IN  IF mid * mid >= x THEN CeilSqrtIn(x, lo, mid)
             ELSE CeilSqrtIn(x, mid + 1, hi)

CeilSqrt(x, hi) == CeilSqrtIn(x, 0, hi)

\* ---------------------------------------------------------- TfidfVectorizer
\* lowercase=True of TfidfVectorizer.
Lower(w) ==
    CASE w = "Cat" -> "cat"
      [] w = "N/A" -> "n/a"
      [] w = "Yes!" -> "yes!"
      [] OTHER -> w

\* stop_words="english": the members of the English stop list among Words.
StopWords == {"the", "is"}

\* The token a word contributes to the vocabulary, if any.
Token(w) == IF Lower(w) \in StopWords THEN NoToken ELSE Lower(w)

\* Term frequency of token t in answer a.
Tf(a, t) == Cardinality({ i \in 1..Len(a) : Token(a[i]) = t })

\* The fitted vocabulary of a document list.
Vocabulary(docs) ==
    UNION { { Token(docs[i][j]) : j \in 1..Len(docs[i]) } : i \in 1..Len(docs) } \ {NoToken}

\* fit_transform raises ValueError("empty vocabulary ...") when no term is left.
VectorizeFails(docs) == Vocabulary(docs) = {}

\* 10 * ln(k), to the nearest integer, for k = 1..8.
Ln10 == <<0, 7, 11, 14, 16, 18, 19, 21>>

\* smooth_idf=True: idf = ln((1 + n) / (1 + df)) + 1, in tenths.
Idf10(n, df) == Ln10[1 + n] - Ln10[1 + df] + 10

Df(docs, t) == Cardinality({ i \in 1..Len(docs) : Tf(docs[i], t) > 0 })

\* The tf-idf row of every document (before the l2 normalisation, which the
\* cosine below performs).
fit_transform(docs) ==
    [ i \in 1..Len(docs) |->
        [ t \in Vocabulary(docs) |-> Tf(docs[i], t) * Idf10(Len(docs), Df(docs, t)) ] ]

Dot(x, y) ==
    LET RECURSIVE Acc(_)
        Acc(T) == IF T = {} THEN 0
                  ELSE LET t == CHOOSE u \in T : TRUE
                       IN  x[t] * y[t] + Acc(T \ {t})
    IN  Acc(DOMAIN x)

\* Two rows are the same point after l2 normalisation.
SameVector(x, y) ==
    /\ \A t \in DOMAIN x : (x[t] = 0) <=> (y[t] = 0)
    /\ \A t, u \in DOMAIN x : x[t] * y[u] = x[u] * y[t]

\* cosine_similarity of two rows, in thousandths, truncated; a zero row has
\* similarity 0 with every row, itself included.
Cosine(x, y) ==
    LET nx == Dot(x, x)
        ny == Dot(y, y)
    IN  IF nx = 0 \/ ny = 0 THEN 0
        ELSE (1000 * Dot(x, y)) \div CeilSqrt(nx * ny, Max(nx, ny))

\* ------------------------------------------------------------------ KMeans
\* The label sequences of length n over at most k labels, up to renaming of
\* the labels: labels are numbered in order of first occurrence.  (The code
\* uses a label only as a dictionary key, and the dictionary keeps the keys in
\* order of first occurrence.)
RECURSIVE Labelings(_, _)
Labelings(n, k) ==
    IF n = 0 THEN { <<>> }
    ELSE UNION { { Append(l, x) : x \in 0..Min(k - 1, Cardinality(Range(l))) } :
                 l \in Labelings(n - 1, k) }

\* What KMeans(n_clusters=k, random_state=42, n_init=10).fit_predict(X) can
\* return: every row gets the label of its nearest centre, so rows that are
\* the same point share a label; the k centres start on k rows that are
\* different points whenever there are that many, so all rows share one label
\* exactly when they are all the same point.
fit_predict(X, k) ==
    { l \in Labelings(Len(X), k) :
        /\ \A i, j \in 1..Len(X) : SameVector(X[i], X[j]) => l[i] = l[j]
        /\ (\A i, j \in 1..Len(X) : l[i] = l[j])
              => (\A i, j \in 1..Len(X) : SameVector(X[i], X[j])) }

\* ------------------------------------------------------- analysis/clustering
\* The elements of s at the positions whose label is lab, in order.
RECURSIVE Members(_, _, _)
Members(s, l, lab) ==
    IF s = <<>> THEN <<>>
    ELSE IF Head(l) = lab THEN <<Head(s)>> \o Members(Tail(s), Tail(l), lab)
         ELSE Members(Tail(s), Tail(l), lab)

\* clusters.setdefault(label, []).append(answers[idx]); list(clusters.values())
BuildClusters(s, l) ==
    [ c \in 1..Cardinality(Range(l)) |-> Members(s, l, c - 1) ]

\* split_into_groups with the last chunk cut like the others.
split_into_groups_cut(s, max_groups) ==
    IF Len(s) <= max_groups THEN [ i \in 1..Len(s) |-> <<s[i]>> ]
    ELSE LET group_size == Len(s) \div max_groups
         IN  [ i \in 1..max_groups |->
                 SubSeq(s, (i - 1) * group_size + 1, i * group_size) ]

\* split_into_groups with the remainder in the first group.
split_into_groups_rest_first(s, max_groups) ==
    IF Len(s) <= max_groups THEN [ i \in 1..Len(s) |-> <<s[i]>> ]
    ELSE LET group_size == Len(s) \div max_groups
             rest == Len(s) - max_groups * group_size
         IN  [ i \in 1..max_groups |->
                 IF i = 1 THEN SubSeq(s, 1, group_size + rest)
                 ELSE SubSeq(s, rest + (i - 1) * group_size + 1, rest + i * group_size) ]

split_into_groups(s, max_groups) ==
    IF Len(s) <= max_groups THEN [ i \in 1..Len(s) |-> <<s[i]>> ]
    ELSE LET group_size == Len(s) \div max_groups
             groups == [ i \in 1..max_groups |->
                           IF i = max_groups
                           THEN SubSeq(s, (i - 1) * group_size + 1, Len(s))
                           ELSE SubSeq(s, (i - 1) * group_size + 1, i * group_size) ]
         IN  SelectSeq(groups, LAMBDA g : g # <<>>)

\* n_clusters without the max_clusters cap.
n_clusters_uncapped(s, maxc) == Min(Cardinality(Range(s)), Len(s))

\* The number of clusters KMeans is asked for.
n_clusters(s, maxc) == Min(Min(maxc, Cardinality(Range(s))), Len(s))

\* cluster_answers without the all-identical test.
cluster_answers_no_identical(s, maxc, l) ==
    IF Len(s) < 2 THEN [clusters |-> <<>>, path |-> "too_few"]
    ELSE IF VectorizeFails(s) THEN [clusters |-> <<s>>, path |-> "no_vocabulary"]
    ELSE IF n_clusters(s, maxc) < 2 THEN [clusters |-> <<s>>, path |-> "one_cluster"]
    ELSE IF Cardinality(Range(l)) = 1
         THEN [clusters |-> split_into_groups(s, maxc), path |-> "split"]
    ELSE [clusters |-> [ c \in 1..Cardinality(Range(l)) |-> Members(s, l, c - 1) ],
          path |-> "kmeans"]

\* cluster_answers falling back on the positional split when the vectorizer
\* raises.
cluster_answers_split_on_error(s, maxc, l) ==
    IF Len(s) < 2 THEN [clusters |-> <<>>, path |-> "too_few"]
    ELSE IF Cardinality(Range(s)) = 1 THEN [clusters |-> <<s>>, path |-> "identical"]
    ELSE IF VectorizeFails(s)
         THEN [clusters |-> split_into_groups(s, maxc), path |-> "split"]
    ELSE IF n_clusters(s, maxc) < 2 THEN [clusters |-> <<s>>, path |-> "one_cluster"]
    ELSE IF Cardinality(Range(l)) = 1
         THEN [clusters |-> split_into_groups(s, maxc), path |-> "split"]
    ELSE [clusters |-> BuildClusters(s, l), path |-> "kmeans"]

\* cluster_answers with the labels KMeans returned, when it is reached.
\* path names the return statement taken.
cluster_answers(s, maxc, l) ==
    IF Len(s) < 2 THEN [clusters |-> <<>>, path |-> "too_few"]
    ELSE IF Cardinality(Range(s)) = 1 THEN [clusters |-> <<s>>, path |-> "identical"]
    ELSE IF VectorizeFails(s) THEN [clusters |-> <<s>>, path |-> "no_vocabulary"]
    ELSE IF n_clusters(s, maxc) < 2 THEN [clusters |-> <<s>>, path |-> "one_cluster"]
    ELSE IF Cardinality(Range(l)) = 1
         THEN [clusters |-> split_into_groups(s, maxc), path |-> "split"]
    ELSE [clusters |-> BuildClusters(s, l), path |-> "kmeans"]

\* Whether cluster_answers reaches KMeans on these arguments.
ReachesKMeans(s, maxc) ==
    /\ Len(s) >= 2
    /\ Cardinality(Range(s)) # 1
    /\ ~VectorizeFails(s)
    /\ n_clusters(s, maxc) >= 2

\* The label sequences cluster_answers can see.
LabelChoices(s, maxc) ==
    IF ReachesKMeans(s, maxc) THEN fit_predict(fit_transform(s), n_clusters(s, maxc))
    ELSE { <<>> }

RECURSIVE Concat(_)
Concat(ss) == IF ss = <<>> THEN <<>> ELSE Head(ss) \o Concat(Tail(ss))

detect_weak_concepts_under_four(s) ==
    LET all_words == Concat(s)
        short == Cardinality({ i \in 1..Len(s) : Len(s[i]) < 4 })
    IN  [ short_answers |-> short,
          low_vocab_diversity |->
              10 * Cardinality(Range(all_words)) < 4 * Max(Len(all_words), 1) ]

detect_weak_concepts_at_most(s) ==
    LET all_words == Concat(s)
        short == Cardinality({ i \in 1..Len(s) : Len(s[i]) <= 4 })
    IN  [ short_answers |-> short,
          low_vocab_diversity |->
              10 * Cardinality(Range(all_words)) <= 4 * Max(Len(all_words), 1) ]

\* detect_weak_concepts; a.split() of an answer is the answer's word sequence.
detect_weak_concepts(s) ==
    LET all_words == Concat(s)
        short == Cardinality({ i \in 1..Len(s) : Len(s[i]) <= 4 })
    IN  [ short_answers |-> short,
          \* unique_ratio < 0.4, unique_ratio = distinct / max(len(all_words), 1)
          low_vocab_diversity |->
              10 * Cardinality(Range(all_words)) < 4 * Max(Len(all_words), 1) ]

\* --------------------------------------------------------- analysis/insights
\* Sum of all entries of the similarity matrix of the answers, in thousandths.
SimilarityTotal(s) ==
    LET X == fit_transform(s)
    IN  SumSeq([ i \in 1..Len(s) |-> SumSeq([ j \in 1..Len(s) |-> Cosine(X[i], X[j]) ]) ])

\* The distinct answers occurring more than once, in order of first occurrence.
frequent_answers(s) ==
    LET Count(a) == Cardinality({ i \in 1..Len(s) : s[i] = a })
        First(i) == \A j \in 1..(i - 1) : s[j] # s[i]
        RECURSIVE From(_)
        From(i) == IF i > Len(s) THEN <<>>
                   ELSE IF First(i) /\ Count(s[i]) > 1 THEN <<s[i]>> \o From(i + 1)
                   ELSE From(i + 1)
    IN  From(1)

\* calculate_difficulty; simTotal is the unrounded similarity sum (0 when the
\* similarity was not computed).  The score is compared after multiplying by
\* 1000 * L, L = 10 * n * n * max(words, 1).
calculate_difficulty(s, simTotal) ==
    LET n == Max(Len(s), 1)
        W == Len(Concat(s))
        U == Cardinality(Range(Concat(s)))
        Wm == Max(W, 1)
        L == 10 * n * n * Wm
        score == 20 * W * 10 * n * Wm + 300 * U * 10 * n * n + 300 * L - 3 * simTotal * Wm
    IN  IF score > 600 * L THEN "Hard"
        ELSE IF score > 350 * L THEN "Medium"
        ELSE "Easy"

LowerSeq(a) == [ i \in 1..Len(a) |-> Lower(a[i]) ]

\* The last character of a word, for the words that end in a punctuation mark.
FinalChar(w) ==
    CASE w \in {"works.", "done."} -> "."
      [] w \in {"Yes!"} -> "!"
      [] w \in {"why?"} -> "?"
      [] OTHER -> "letter"

\* a.endswith(".")
EndsWithDot(a) == a # <<>> /\ FinalChar(a[Len(a)]) = "."

\* ["", "n/a", "none", "idk", "don't know"]
NoContentAnswers == { <<>>, <<"n/a">>, <<"none">>, <<"idk">>, <<"don't", "know">> }

\* detect_common_mistakes; percentage in tenths of a percent.
detect_common_mistakes(s) ==
    LET Matches(p) ==
            CASE p = "short_answer" -> { i \in 1..Len(s) : Len(s[i]) <= 3 }
              [] p = "no_content" -> { i \in 1..Len(s) : LowerSeq(s[i]) \in NoContentAnswers }
              [] p = "incomplete" -> { i \in 1..Len(s) : ~EndsWithDot(s[i]) /\ Len(s[i]) < 5 }
        Entry(p) == [ type |-> p, count |-> Cardinality(Matches(p)),
                      percentage |-> RoundHalfEven(Cardinality(Matches(p)) * 1000, Len(s)) ]
        patterns == <<"short_answer", "no_content", "incomplete">>
        RECURSIVE From(_)
        From(i) == IF i > Len(patterns) THEN <<>>
                   ELSE IF Cardinality(Matches(patterns[i])) > 0
                        THEN <<Entry(patterns[i])>> \o From(i + 1)
                   ELSE From(i + 1)
    IN  From(1)

\* analyze_question vectorizing a single answer too.
analyze_question_single(s) ==
    IF Len(s) > 0 /\ VectorizeFails(s) THEN [ raised |-> TRUE ]
    ELSE [ raised |-> FALSE,
           total_responses |-> Len(s),
           avg_similarity |->
               IF Len(s) > 0 THEN RoundHalfEven(SimilarityTotal(s), Len(s) * Len(s) * 10)
               ELSE 0,
           frequent_answers |-> frequent_answers(s),
           difficulty |-> calculate_difficulty(s, 0),
           common_mistakes |-> detect_common_mistakes(s) ]

\* The body of the loop of analyze_grouped_answers for one question.  The
\* vectorizer's ValueError is not caught there: raised is TRUE when it leaves
\* the function.
analyze_question(s) ==
    IF Len(s) > 1 /\ VectorizeFails(s) THEN [ raised |-> TRUE ]
    ELSE LET simTotal == IF Len(s) > 1 THEN SimilarityTotal(s) ELSE 0
         IN  [ raised |-> FALSE,
               total_responses |-> Len(s),
               avg_similarity |->
                   IF Len(s) > 1 THEN RoundHalfEven(simTotal, Len(s) * Len(s) * 10) ELSE 0,
               frequent_answers |-> frequent_answers(s),
               difficulty |-> calculate_difficulty(s, simTotal),
               common_mistakes |-> detect_common_mistakes(s) ]

\* ------------------------------------------------------------ scoring (app)
\* calculate_scores without the cap on the confidence score.
calculate_scores_uncapped(total, avg, short, low_vocab, nclusters) ==
    LET vocab_score == IF low_vocab THEN 0 ELSE 1
        den == IF total # 0 THEN total ELSE 1
        num == (avg * 40 + vocab_score * 2000 + 2000 + 2000) * den
                 - (IF total # 0 THEN 2000 * short ELSE 0)
    IN  [ insight_score |-> RoundHalfEven(Min(num, 10000 * den), den),
          confidence_score |-> 100 * (total * 10 + nclusters * 15) ]

\* calculate_scores dividing by max(total, 1) with a length_score of 0 for no
\* responses.
calculate_scores_no_length(total, avg, short, low_vocab, nclusters) ==
    LET vocab_score == IF low_vocab THEN 0 ELSE 1
        den == IF total # 0 THEN total ELSE 1
        num == (avg * 40 + vocab_score * 2000 + 2000) * den
                 + (IF total # 0 THEN 2000 * (total - short) ELSE 0)
    IN  [ insight_score |-> RoundHalfEven(Min(num, 10000 * den), den),
          confidence_score |-> 100 * Min(100, total * 10 + nclusters * 15) ]

\* calculate_scores on total_responses, avg_similarity (hundredths),
\* short_answers, low_vocab_diversity and the number of clusters; both scores
\* in hundredths.
calculate_scores(total, avg, short, low_vocab, nclusters) ==
    LET vocab_score == IF low_vocab THEN 0 ELSE 1
        den == IF total # 0 THEN total ELSE 1
        \* 100 * den * (avg*40 + vocab_score*20 + length_score*20 + 20)
        num == (avg * 40 + vocab_score * 2000 + 2000 + 2000) * den
                 - (IF total # 0 THEN 2000 * short ELSE 0)
    IN  [ insight_score |-> RoundHalfEven(Min(num, 10000 * den), den),
          confidence_score |-> 100 * Min(100, total * 10 + nclusters * 15) ]

\* ------------------------------------------------- feedback/explainability
\* explain_weak_concept; percentage is in tenths of a percent, the explanation
\* text is left out.
explain_weak_concept(concept_type, count, total) ==
    LET percentage == IF total > 0 THEN RoundHalfEven(1000 * count, total) ELSE 0
        is_flagged == percentage > 200
        severity == IF concept_type = "short_answers"
                    THEN IF is_flagged
                         THEN IF percentage > 400 THEN "high" ELSE "medium"
                         ELSE "low"
                    ELSE IF concept_type = "low_vocab"
                    THEN IF is_flagged THEN "medium" ELSE "low"
                    ELSE "low"
    IN  [ concept_type |-> concept_type,
          count |-> count,
          total |-> total,
          percentage |-> percentage,
          is_flagged |-> is_flagged,
          severity |-> severity ]

\* generate_transparency_report, 'weak_concept_explanations': one entry per
\* item of weak_concepts whose value passes isinstance(count, int), in the
\* order of the dictionary; a bool is an int, True counting as 1 and False as 0.
weak_concept_explanations(weak_concepts, total) ==
    << explain_weak_concept("short_answers", weak_concepts.short_answers, total),
       explain_weak_concept("low_vocab_diversity",
                            IF weak_concepts.low_vocab_diversity THEN 1 ELSE 0, total) >>

\* explain_cluster_selection; class_percentage in tenths of a percent.
explain_cluster_selection(cluster, all_answers) ==
    LET cluster_size == Len(cluster)
        total_answers == Len(all_answers)
        percentage == IF total_answers > 0 THEN RoundHalfEven(1000 * cluster_size, total_answers)
                      ELSE 0
    IN  [ cluster_size |-> cluster_size,
          class_percentage |-> percentage,
          classification |-> IF percentage > 400 THEN "Highly Common"
                             ELSE IF percentage > 200 THEN "Moderately Common"
                             ELSE "Less Common",
          sample_answers |-> SubSeq(cluster, 1, Min(3, Len(cluster))) ]

\* generate_transparency_report(question, insights, clusters, weak_concepts,
\* scores) without 'similarity_analysis' and 'score_explanation', the texts
\* explain_similarity_score and explain_insight_score write about the scores.
generate_transparency_report(question, insights, clusters, weak_concepts) ==
    LET \* insights.get('frequent_answers', []) + [c for c_list in clusters for c in c_list]
        all_answers == insights.frequent_answers \o Concat(clusters)
    IN  [ question_id |-> question,
          total_responses |-> insights.total_responses,
          cluster_explanations |->
              [ i \in 1..Len(clusters) |->
                  [ cluster_id |-> i ] @@ explain_cluster_selection(clusters[i], all_answers) ],
          weak_concept_explanations |->
              weak_concept_explanations(weak_concepts, insights.total_responses) ]

\* ------------------------------------------------------- idle values
CoreIdle ==
    /\ answers = <<>>
    /\ max_clusters = DefaultMaxClusters
    /\ ins = NotRun /\ cl = NotRun /\ weak = NotRun /\ sc = NotRun
    /\ pc = "idle"

ScoreIdle == sin = NotRun /\ sout = NotRun /\ derived = NotRun

WebIdle ==
    /\ session = <<>>
    /\ files = <<>>
    /\ response = NotRun
    /\ written = <<>>
    /\ uploaded = <<>>
    /\ clock = 0 /\ reports = <<>> /\ inflight = <<>> /\ requests = 0

\* ------------------------------------------- the analysis of one question
\* The components in the order in which upload runs them on a question.
InitCore ==
    /\ answers \in AnswerLists
    /\ max_clusters \in MaxClustersPool
    /\ ins = NotRun /\ cl = NotRun /\ weak = NotRun /\ sc = NotRun
    /\ pc = "analyze"
    /\ ScoreIdle /\ WebIdle

Analyze ==
    /\ pc = "analyze"
    /\ ins' = analyze_question(answers)
    /\ pc' = "cluster"
    /\ UNCHANGED <<answers, max_clusters, cl, weak, sc, scoreVars, webVars>>

Cluster ==
    /\ pc = "cluster"
    /\ \E l \in LabelChoices(answers, max_clusters) :
           cl' = cluster_answers(answers, max_clusters, l)
    /\ pc' = "weak"
    /\ UNCHANGED <<answers, max_clusters, ins, weak, sc, scoreVars, webVars>>

DetectWeak ==
    /\ pc = "weak"
    /\ weak' = detect_weak_concepts(answers)
    /\ pc' = "score"
    /\ UNCHANGED <<answers, max_clusters, ins, cl, sc, scoreVars, webVars>>

\* calculate_scores reads the insight: it runs only when the analysis returned one.
Score ==
    /\ pc = "score"
    /\ ~ins.raised
    /\ sc' = calculate_scores(ins.total_responses, ins.avg_similarity,
                              weak.short_answers, weak.low_vocab_diversity,
                              Len(cl.clusters))
    /\ pc' = "explain"
    /\ UNCHANGED <<answers, max_clusters, ins, cl, weak, scoreVars, webVars>>

\* generate_transparency_report for the question, the last of the components
\* that read the four results.
Explain ==
    /\ pc = "explain"
    /\ derived' = generate_transparency_report("q1", ins, cl.clusters, weak)
    /\ pc' = "done"
    /\ UNCHANGED <<answers, max_clusters, ins, cl, weak, sc, sin, sout, webVars>>

NextCore == Analyze \/ Cluster \/ DetectWeak \/ Score \/ Explain

SpecCore == InitCore /\ [][NextCore]_vars

\* ------------------------------------- questions answered with stop words
\* Answers made of English stop words only, and one that is not.
StopAnswerPool == { <<"the">>, <<"is">>, <<"the", "is">>, <<"cat">> }

InitStop ==
    /\ answers \in SeqsUpTo(StopAnswerPool, MaxAnswers)
    /\ max_clusters \in MaxClustersPool
    /\ ins = NotRun /\ cl = NotRun /\ weak = NotRun /\ sc = NotRun
    /\ pc = "analyze"
    /\ ScoreIdle /\ WebIdle

SpecStop == InitStop /\ [][NextCore]_vars

\* ------------------------------------ detect_weak_concepts on longer answers
\* Answers of 1, 1, 2, 2, 4 and 5 words.
WeakAnswerPool ==
    { <<"ok">>, <<"fine">>, <<"good", "job">>, <<"ok", "ok">>,
      <<"I", "understand", "completely", "now">>,
      <<"I", "understand", "it", "completely", "now">> }

InitWeak ==
    /\ answers \in SeqsUpTo(WeakAnswerPool, MaxAnswers)
    /\ max_clusters = DefaultMaxClusters
    /\ ins = NotRun /\ cl = NotRun /\ weak = NotRun /\ sc = NotRun
    /\ pc = "weak"
    /\ ScoreIdle /\ WebIdle

NextWeak == DetectWeak

SpecWeak == InitWeak /\ [][NextWeak]_vars

\* --------------------------------------------- analysis/summary_generator
ReTeach == "Re-teach the concept with examples and guided practice."
EncourageDetail == "Focus on encouraging detailed explanations and deeper thinking."
Reinforce == "Minor clarification and reinforcement recommended."

\* generate_structured_summary; insight_score and similarity in hundredths.
\* summary_text is the tuple of the values its f-string is built from.
\* generate_structured_summary testing the risk before the understanding.
generate_structured_summary_risk_first(question_id, total, similarity, insight_score, short) ==
    LET understanding_level == IF insight_score >= 7500 THEN "High"
                               ELSE IF insight_score >= 5000 THEN "Moderate"
                               ELSE "Low"
        pattern_type == IF similarity > 60 THEN "Highly similar"
                        ELSE IF similarity > 30 THEN "Moderate variation"
                        ELSE "Highly diverse"
        risk_level == IF 10 * short > 4 * total THEN "High"
                      ELSE IF 10 * short > 2 * total THEN "Medium"
                      ELSE "Low"
        teaching_action == IF risk_level = "High" THEN EncourageDetail
                           ELSE IF understanding_level = "Low" THEN ReTeach
                           ELSE Reinforce
    IN  [ understanding_level |-> understanding_level,
          pattern_type |-> pattern_type,
          risk_level |-> risk_level,
          teaching_action |-> teaching_action,
          summary_text |-> <<question_id, understanding_level, pattern_type,
                             risk_level, teaching_action>> ]

generate_structured_summary(question_id, total, similarity, insight_score, short) ==
    LET understanding_level == IF insight_score >= 7500 THEN "High"
                               ELSE IF insight_score >= 5000 THEN "Moderate"
                               ELSE "Low"
        pattern_type == IF similarity > 60 THEN "Highly similar"
                        ELSE IF similarity > 30 THEN "Moderate variation"
                        ELSE "Highly diverse"
        \* short_answers > total * 0.4, short_answers > total * 0.2
        risk_level == IF 10 * short > 4 * total THEN "High"
                      ELSE IF 10 * short > 2 * total THEN "Medium"
                      ELSE "Low"
        teaching_action == IF understanding_level = "Low" THEN ReTeach
                           ELSE IF risk_level = "High" THEN EncourageDetail
                           ELSE Reinforce
    IN  [ understanding_level |-> understanding_level,
          pattern_type |-> pattern_type,
          risk_level |-> risk_level,
          teaching_action |-> teaching_action,
          summary_text |-> <<question_id, understanding_level, pattern_type,
                             risk_level, teaching_action>> ]

\* ---------------------------------------------- feedback/feedback_generator
StrongUnderstanding ==
    "Class shows strong understanding. Proceed to next topic with minor reinforcement."
ModerateUnderstanding == "Moderate understanding. Review key concepts with examples."
ReviewRequired == "Review required. Consider re-teaching with guided practice."

recommendation_above(understanding) ==
    IF understanding > 7500 THEN StrongUnderstanding
    ELSE IF understanding > 5000 THEN ModerateUnderstanding
    ELSE ReviewRequired

\* The overall recommendation of generate_class_feedback; understanding is the
\* question's insight_score, in hundredths.
recommendation(understanding) ==
    IF understanding >= 7500 THEN StrongUnderstanding
    ELSE IF understanding >= 5000 THEN ModerateUnderstanding
    ELSE ReviewRequired

\* generate_class_feedback for one question, from the question's insights,
\* weak concepts, scores and clusters; a teaching point is given by its kind,
\* avg_similarity in tenths of a percent.
generate_class_feedback(insights_q, weak_q, score_q, clusters_count) ==
    [ total_responses |-> insights_q.total_responses,
      understanding_level |-> score_q.understanding_level,
      risk_level |-> score_q.risk_level,
      recommendation |-> recommendation(score_q.insight_score),
      teaching_points |->
          (IF weak_q.short_answers > 0 THEN <<"short_answers">> ELSE <<>>) \o
          (IF weak_q.low_vocab_diversity THEN <<"low_vocab_diversity">> ELSE <<>>) \o
          (IF insights_q.frequent_answers # <<>> THEN <<"frequent_answers">> ELSE <<>>),
      avg_similarity |-> 10 * insights_q.avg_similarity,
      clusters_count |-> clusters_count ]

\* ----------------------------------------- calculate_scores on any arguments
ScoreInputs ==
    [ total : 0..MaxTotal, avg : 0..100, short : 0..MaxTotal,
      low_vocab : BOOLEAN, nclusters : 0..DefaultMaxClusters ]

InitScores ==
    /\ sin \in { r \in ScoreInputs : r.short <= r.total }
    /\ sout = NotRun
    /\ derived = NotRun
    /\ CoreIdle /\ WebIdle

ApplyScores ==
    /\ sout = NotRun
    /\ sout' = calculate_scores(sin.total, sin.avg, sin.short, sin.low_vocab, sin.nclusters)
    /\ UNCHANGED <<sin, derived, coreVars, webVars>>

\* What upload derives from the scores of a question: the summary, and the
\* class feedback computed from the scores with the summary's levels added.
Derive ==
    /\ sout # NotRun
    /\ derived = NotRun
    /\ derived' =
         LET summary == generate_structured_summary("q1", sin.total, sin.avg,
                                                    sout.insight_score, sin.short)
             score_q == [ insight_score |-> sout.insight_score,
                          confidence_score |-> sout.confidence_score,
                          understanding_level |-> summary.understanding_level,
                          risk_level |-> summary.risk_level ]
         IN  [ summary |-> summary,
               class_feedback |->
                   generate_class_feedback(
                       [total_responses |-> sin.total, avg_similarity |-> sin.avg,
                        frequent_answers |-> <<>>],
                       [short_answers |-> sin.short, low_vocab_diversity |-> sin.low_vocab],
                       score_q, sin.nclusters) ]
    /\ UNCHANGED <<sin, sout, coreVars, webVars>>

NextScores == ApplyScores \/ Derive

SpecScores == InitScores /\ [][NextScores]_vars

\* --------------------------- risk_level and severity on any number of answers
RiskInputs == [ total : 0..MaxResponses, short : 0..MaxResponses, low_vocab : BOOLEAN ]

InitRisk ==
    /\ sin \in { r \in RiskInputs : r.short <= r.total }
    /\ sout = NotRun
    /\ derived = NotRun
    /\ CoreIdle /\ WebIdle

\* upload hands the same weak_concepts and total_responses to the summary and
\* to the transparency report; risk_level reads neither the similarity nor
\* the insight score, given here as 0 and the floor of 20.
ApplyRisk ==
    /\ derived = NotRun
    /\ derived' =
         [ summary |-> generate_structured_summary("q1", sin.total, 0, 2000, sin.short),
           weak_concept_explanations |->
               weak_concept_explanations(
                   [short_answers |-> sin.short, low_vocab_diversity |-> sin.low_vocab],
                   sin.total) ]
    /\ UNCHANGED <<sin, sout, coreVars, webVars>>

NextRisk == ApplyRisk

SpecRisk == InitRisk /\ [][NextRisk]_vars

\* ------------------------------------------------------------- the web app
Sessions == {"b1", "b2"}
Teachers == {"t1", "t2"}
NoTeacher == "none"
NoAnalysis == 0

\* Uploaded files after parsing and group_by_question: question_id -> entries
\* (student_name and question_text are carried along unread and left out).
Entry(st, a) == [student_id |-> st, answer |-> a]

Datasets ==
    { [ q1 |-> << Entry("s1", <<"cat">>), Entry("s2", <<"dog">>) >> ],
      [ q1 |-> << Entry("s1", <<"the">>), Entry("s2", <<"the">>) >> ],
      [ q1 |-> << Entry("s1", <<"cat">>), Entry("s2", <<"Cat">>) >>,
        q2 |-> << Entry("s1", <<"cat", "dog">>) >> ] }

\* What request.files / the file name can be besides a parsable file.
BadUploads == {"no_file", "bad_extension"}

\* question_id and feedback values of a save_feedback request ("" also stands
\* for a missing key: both are falsy).
QuestionIds == {"", "q1", "q2", "q9"}
FeedbackTexts == {"", "T1", "T2"}

AnswersOf(entries) == [ i \in 1..Len(entries) |-> entries[i].answer ]

login_required_open(s) == TRUE

\* login_required()
login_required(s) == session[s].teacher_id # NoTeacher

Respond(s, route, kind, body) ==
    [session |-> s, route |-> route, kind |-> kind, body |-> body]

\* The pipeline of upload on grouped data g, with the labels KMeans returned
\* for each question: the analysis_data dictionary.
analysis_data(g, L) ==
    LET Q == DOMAIN g
        insights == [ q \in Q |-> analyze_question(AnswersOf(g[q])) ]
        clusters == [ q \in Q |->
                        cluster_answers(AnswersOf(g[q]), DefaultMaxClusters, L[q]).clusters ]
        weak_concepts == [ q \in Q |-> detect_weak_concepts(AnswersOf(g[q])) ]
        raw == [ q \in Q |->
                   calculate_scores(insights[q].total_responses, insights[q].avg_similarity,
                                    weak_concepts[q].short_answers,
                                    weak_concepts[q].low_vocab_diversity,
                                    Len(clusters[q])) ]
        summaries == [ q \in Q |->
                         generate_structured_summary(q, insights[q].total_responses,
                             insights[q].avg_similarity, raw[q].insight_score,
                             weak_concepts[q].short_answers) ]
        scores == [ q \in Q |->
                      [ insight_score |-> raw[q].insight_score,
                        confidence_score |-> raw[q].confidence_score,
                        understanding_level |-> summaries[q].understanding_level,
                        risk_level |-> summaries[q].risk_level ] ]
        transparency_reports ==
            [ q \in Q |-> generate_transparency_report(q, insights[q], clusters[q],
                                                       weak_concepts[q]) ]
    IN  [ grouped_data |-> g,
          insights |-> insights,
          clusters |-> clusters,
          weak_concepts |-> weak_concepts,
          scores |-> scores,
          summaries |-> summaries,
          transparency_reports |-> transparency_reports,
          total_students |->
              Cardinality(UNION { { g[q][i].student_id : i \in 1..Len(g[q]) } : q \in Q }),
          \* round(sum of avg_similarity / len(insights), 2)
          overall_avg_similarity |->
              LET RECURSIVE Sum(_)
                  Sum(S) == IF S = {} THEN 0
                            ELSE LET q == CHOOSE x \in S : TRUE
                                 IN  insights[q].avg_similarity + Sum(S \ {q})
              IN  IF Q = {} THEN 0 ELSE RoundHalfEven(Sum(Q), Cardinality(Q)) ]

\* analyze_grouped_answers raises on some question of g.
AnalysisRaises(g) == \E q \in DOMAIN g : analyze_question(AnswersOf(g[q])).raised

\* load_analysis_from_file: the stored data, or NotRun (None) without a file.
load_analysis_from_file(analysis_id) ==
    IF analysis_id \in 1..Len(files) THEN files[analysis_id] ELSE NotRun

\* The dictionary export_pdf, export_text and export_excel hand to the report
\* writer.
report_data(data) ==
    [ total_students |-> data.total_students,
      total_questions |-> Cardinality(DOMAIN data.grouped_data),
      overall_similarity |-> data.overall_avg_similarity,
      avg_insight_score |->
          LET RECURSIVE Sum(_)
              Sum(S) == IF S = {} THEN 0
                        ELSE LET q == CHOOSE x \in S : TRUE
                             IN  data.scores[q].insight_score + Sum(S \ {q})
          IN  IF DOMAIN data.scores = {} THEN 0
              ELSE RoundHalfEven(Sum(DOMAIN data.scores), Cardinality(DOMAIN data.scores)),
      questions |->
          [ q \in DOMAIN data.grouped_data |->
              [ total_responses |-> data.insights[q].total_responses,
                insight_score |-> data.scores[q].insight_score,
                confidence_score |-> data.scores[q].confidence_score,
                understanding_level |-> data.scores[q].understanding_level,
                risk_level |-> data.scores[q].risk_level,
                teaching_action |-> data.summaries[q].teaching_action,
                weak_concepts |-> data.weak_concepts[q] ] ] ]

\* The labels KMeans can return for the questions of g, one choice per question.
LabelFamilies(g) ==
    { L \in [ DOMAIN g -> UNION { LabelChoices(AnswersOf(g[q]), DefaultMaxClusters) :
                                   q \in DOMAIN g } ] :
        \A q \in DOMAIN g : L[q] \in LabelChoices(AnswersOf(g[q]), DefaultMaxClusters) }

\* What the pipeline of upload does on each dataset: it raises, or it computes
\* one of these analysis_data dictionaries.
UploadOutcome ==
    [ g \in Datasets |->
        IF AnalysisRaises(g) THEN [raised |-> TRUE, results |-> {}]
        ELSE [raised |-> FALSE,
              results |-> { analysis_data(g, L) : L \in LabelFamilies(g) }] ]

save_analysis_fixed_id(fs, data) ==
    [ analysis_id |-> 1,
      files |-> IF fs = <<>> THEN <<data>> ELSE [fs EXCEPT ![1] = data] ]

\* save_analysis_to_file: writes the data to analysis_<uuid4>.json and returns
\* the id; a fresh uuid4 is the next index of files.  The data holds only
\* dicts with string keys, lists, strings, numbers and booleans, which
\* make_serializable and the JSON encoding hand back as they are.
save_analysis_to_file(fs, data) ==
    [ analysis_id |-> Len(fs) + 1, files |-> Append(fs, data) ]

summaries_has_any_key(data, question_id) == TRUE

\* data['summaries'][question_id] finds the key (it raises KeyError otherwise).
summaries_has_key(data, question_id) == question_id \in DOMAIN data.summaries

set_teaching_action_and_text(data, question_id, new_feedback) ==
    [data EXCEPT !.summaries[question_id].teaching_action = new_feedback,
                 !.summaries[question_id].summary_text =
                     [@ EXCEPT ![5] = new_feedback]]

\* data['summaries'][question_id]['teaching_action'] = new_feedback
set_teaching_action(data, question_id, new_feedback) ==
    [data EXCEPT !.summaries[question_id].teaching_action = new_feedback]

InitWeb ==
    /\ session = [ s \in Sessions |-> [teacher_id |-> NoTeacher, analysis_id |-> NoAnalysis] ]
    /\ files = <<>>
    /\ response = NotRun
    /\ written = [ s \in Sessions |-> <<>> ]
    /\ uploaded = [ s \in Sessions |-> NotRun ]
    /\ clock = 0
    /\ reports = <<>>
    /\ inflight = [ s \in Sessions |-> NotRun ]
    /\ requests = 0
    /\ CoreIdle /\ ScoreIdle

\* POST /login with the credentials of teacher t.
login(s, t) ==
    /\ session' = [session EXCEPT ![s].teacher_id = t]
    /\ response' = Respond(s, "login", "redirect_index", NotRun)
    /\ UNCHANGED <<files, written, uploaded, coreVars, scoreVars, threadVars>>

\* POST /login with credentials no teacher row matches.
login_invalid(s) ==
    /\ response' = Respond(s, "login", "login_page_error", NotRun)
    /\ UNCHANGED <<session, files, written, uploaded, coreVars, scoreVars, threadVars>>

logout_keeps_analysis(s) ==
    /\ session' = [session EXCEPT ![s].teacher_id = NoTeacher]
    /\ written' = [written EXCEPT ![s] = <<>>]
    /\ uploaded' = [uploaded EXCEPT ![s] = NotRun]
    /\ response' = Respond(s, "logout", "redirect_login", NotRun)
    /\ UNCHANGED <<files, coreVars, scoreVars, threadVars>>

\* GET /logout: session.clear().  A cleared session has no upload of its own.
logout(s) ==
    /\ session' = [session EXCEPT ![s] = [teacher_id |-> NoTeacher, analysis_id |-> NoAnalysis]]
    /\ written' = [written EXCEPT ![s] = <<>>]
    /\ uploaded' = [uploaded EXCEPT ![s] = NotRun]
    /\ response' = Respond(s, "logout", "redirect_login", NotRun)
    /\ UNCHANGED <<files, coreVars, scoreVars, threadVars>>

\* POST /upload without a usable file.
upload_rejected(s, f) ==
    /\ f \in BadUploads
    /\ response' = IF ~login_required(s) THEN Respond(s, "upload", "redirect_login", NotRun)
                   ELSE Respond(s, "upload", "index_page_error", f)
    /\ UNCHANGED <<session, files, written, uploaded, coreVars, scoreVars, threadVars>>

\* POST /upload of a parsable file holding grouped data g.
upload(s, g) ==
    IF ~login_required(s)
    THEN /\ response' = Respond(s, "upload", "redirect_login", NotRun)
         /\ UNCHANGED <<session, files, written, uploaded, coreVars, scoreVars, threadVars>>
    ELSE IF UploadOutcome[g].raised
    THEN /\ response' = Respond(s, "upload", "error_500", "ValueError")
         /\ UNCHANGED <<session, files, written, uploaded, coreVars, scoreVars, threadVars>>
    ELSE /\ Len(files) < MaxFiles
         /\ \E data \in UploadOutcome[g].results :
               LET saved == save_analysis_to_file(files, data)
               IN  /\ files' = saved.files
                   /\ session' = [session EXCEPT ![s].analysis_id = saved.analysis_id]
                   /\ uploaded' = [uploaded EXCEPT ![s] = data]
         /\ written' = [written EXCEPT ![s] = <<>>]
         /\ response' = Respond(s, "upload", "dashboard", NotRun)
         /\ UNCHANGED <<coreVars, scoreVars, threadVars>>

\* GET /export_pdf, /export_text, /export_excel.
export(s, route) ==
    /\ response' =
         IF ~login_required(s) THEN Respond(s, route, "redirect_login", NotRun)
         ELSE IF session[s].analysis_id = NoAnalysis
              THEN Respond(s, route, "redirect_index", "No analysis data to export")
         ELSE IF load_analysis_from_file(session[s].analysis_id) = NotRun
              THEN Respond(s, route, "redirect_index", "No analysis data to export")
         ELSE Respond(s, route, "report",
                      report_data(load_analysis_from_file(session[s].analysis_id)))
    /\ UNCHANGED <<session, files, written, uploaded, coreVars, scoreVars, threadVars>>

export_pdf(s) == export(s, "export_pdf")
export_text(s) == export(s, "export_text")
export_excel(s) == export(s, "export_excel")

\* POST /save_feedback with JSON {question_id, feedback}.
save_feedback(s, question_id, new_feedback) ==
    LET data == load_analysis_from_file(session[s].analysis_id)
    IN  IF ~login_required(s)
        THEN /\ response' = Respond(s, "save_feedback", "json_error", "Not logged in")
             /\ UNCHANGED <<session, files, written, uploaded, coreVars, scoreVars, threadVars>>
        ELSE IF session[s].analysis_id = NoAnalysis \/ data = NotRun
        THEN /\ response' = Respond(s, "save_feedback", "json_error", "No analysis data")
             /\ UNCHANGED <<session, files, written, uploaded, coreVars, scoreVars, threadVars>>
        ELSE IF question_id = "" \/ new_feedback = ""
        THEN /\ response' = Respond(s, "save_feedback", "json_error", "Invalid data")
             /\ UNCHANGED <<session, files, written, uploaded, coreVars, scoreVars, threadVars>>
        ELSE IF ~summaries_has_key(data, question_id)
        THEN \* data['summaries'][question_id] raises KeyError
             /\ response' = Respond(s, "save_feedback", "error_500", "KeyError")
             /\ UNCHANGED <<session, files, written, uploaded, coreVars, scoreVars, threadVars>>
        ELSE /\ Len(files) < MaxFiles
             \* save_analysis_to_file(data): a new file; the session keeps its analysis_id
             /\ files' = save_analysis_to_file(files,
                            set_teaching_action(data, question_id, new_feedback)).files
             /\ written' = [written EXCEPT ![s] = (question_id :> new_feedback) @@ written[s]]
             /\ response' = Respond(s, "save_feedback", "json_ok", "Feedback updated successfully")
             /\ UNCHANGED <<session, uploaded, coreVars, scoreVars, threadVars>>

\* GET /get_transparency/<question_id>.
get_transparency(s, question_id) ==
    LET data == load_analysis_from_file(session[s].analysis_id)
    IN  /\ response' =
             IF ~login_required(s)
             THEN Respond(s, "get_transparency", "json_error", "Not logged in")
             ELSE IF session[s].analysis_id = NoAnalysis \/ data = NotRun
                  THEN Respond(s, "get_transparency", "json_error", "No analysis data")
             ELSE IF question_id \in DOMAIN data.transparency_reports
                  THEN Respond(s, "get_transparency", "json", data.transparency_reports[question_id])
             ELSE Respond(s, "get_transparency", "json_error", "Data not found")
        /\ UNCHANGED <<session, files, written, uploaded, coreVars, scoreVars, threadVars>>

\* Two browsers and the routes that change the session or the stored files,
\* with the exports; get_transparency, which reads only, is taken under
\* SpecBrowser below.
NextWeb ==
    \E s \in Sessions :
        \/ \E t \in Teachers : login(s, t)
        \/ login_invalid(s)
        \/ logout(s)
        \/ \E f \in BadUploads : upload_rejected(s, f)
        \/ \E g \in Datasets : upload(s, g)
        \/ export_pdf(s)
        \/ export_text(s)
        \/ export_excel(s)
        \/ \E q \in QuestionIds, fb \in FeedbackTexts : save_feedback(s, q, fb)

Spec == InitWeb /\ [][NextWeb]_vars

\* One browser and every route, get_transparency included: what the users
\* of one session see of its analyses from login to logout and after.
NextBrowser ==
    LET s == "b1"
    IN  \/ \E t \in Teachers : login(s, t)
        \/ login_invalid(s)
        \/ logout(s)
        \/ \E f \in BadUploads : upload_rejected(s, f)
        \/ \E g \in Datasets : upload(s, g)
        \/ export_pdf(s)
        \/ export_text(s)
        \/ export_excel(s)
        \/ \E q \in QuestionIds, fb \in FeedbackTexts : save_feedback(s, q, fb)
        \/ \E q \in QuestionIds \ {""} : get_transparency(s, q)

SpecBrowser == InitWeb /\ [][NextBrowser]_vars

\* ------------------------------------------------------- the threaded server
\* app.run() serves every request on a thread of its own.  An export handler
\* is taken in two steps, split between writing the report file and sending
\* it, where another thread can run; under Spec above the handlers run one at
\* a time and the report file is written and sent in one step.
ExportRoutes == {"export_pdf", "export_text", "export_excel"}

\* os.path.join('exports/feedback_reports',
\*              f"assignment_report_{datetime.now().strftime('%Y%m%d_%H%M%S')}.<ext>"):
\* the extension is the route's, the rest is the time to the second.
output_path(route, now) == <<route, now>>

\* The analyses upload can store.
StoredAnalyses == UNION { UploadOutcome[g].results : g \in Datasets }

\* Two teachers are logged in, each in a browser of their own, and each has
\* uploaded a file of their own.
InitThreads ==
    /\ files \in { <<a, b>> : a \in StoredAnalyses, b \in StoredAnalyses }
    /\ \E t1 \in Teachers, t2 \in Teachers :
           session = ("b1" :> [teacher_id |-> t1, analysis_id |-> 1]) @@
                     ("b2" :> [teacher_id |-> t2, analysis_id |-> 2])
    /\ uploaded = [ s \in Sessions |-> files[session[s].analysis_id] ]
    /\ written = [ s \in Sessions |-> <<>> ]
    /\ response = NotRun
    /\ clock = 0
    /\ reports = <<>>
    /\ inflight = [ s \in Sessions |-> NotRun ]
    /\ requests = 0
    /\ CoreIdle /\ ScoreIdle

\* The second changes.
Tick ==
    /\ clock < MaxClock
    /\ clock' = clock + 1
    /\ UNCHANGED <<session, files, response, written, uploaded, reports, inflight,
                   requests, coreVars, scoreVars>>

\* An export handler up to and including create_pdf_report / generate_text_report
\* / create_excel_report, which writes the report to output_path.
export_write(s, route) ==
    LET data == load_analysis_from_file(session[s].analysis_id)
    IN  /\ inflight[s] = NotRun
        /\ IF ~login_required(s)
           THEN /\ response' = Respond(s, route, "redirect_login", NotRun)
                /\ UNCHANGED <<reports, inflight, requests>>
           ELSE IF session[s].analysis_id = NoAnalysis \/ data = NotRun
           THEN /\ response' = Respond(s, route, "redirect_index", "No analysis data to export")
                /\ UNCHANGED <<reports, inflight, requests>>
           ELSE /\ requests < MaxRequests
                /\ requests' = requests + 1
                /\ reports' = (output_path(route, clock) :> report_data(data)) @@ reports
                /\ inflight' = [inflight EXCEPT ![s] =
                                   [route |-> route, output_path |-> output_path(route, clock)]]
                /\ UNCHANGED response
        /\ UNCHANGED <<session, files, written, uploaded, clock, coreVars, scoreVars>>

\* return send_file(output_path, ...): the response is what the file holds now.
export_send(s) ==
    /\ inflight[s] # NotRun
    /\ response' = Respond(s, inflight[s].route, "report", reports[inflight[s].output_path])
    /\ inflight' = [inflight EXCEPT ![s] = NotRun]
    /\ UNCHANGED <<session, files, written, uploaded, clock, reports, requests,
                   coreVars, scoreVars>>

NextThreads ==
    \/ Tick
    \/ \E s \in Sessions :
        \/ logout(s)
        \/ \E route \in ExportRoutes : export_write(s, route)
        \/ export_send(s)

SpecThreads == InitThreads /\ [][NextThreads]_vars

\* ------------------------------------------- insights: detect_common_mistakes
\* Answers with and without a final punctuation mark, of 1 to 5 words, and
\* answers that say nothing.
MistakeAnswerPool ==
    { <<"idk">>, <<"N/A">>, <<"don't", "know">>, <<"Yes!">>, <<"It", "works.">>,
      <<"the", "cat", "sat", "down">>, <<"the", "cat", "sat", "down", "here">> }

InitMistakes ==
    /\ \E s \in SeqsUpTo(MistakeAnswerPool, MaxAnswers) : sin = [ entries |-> s ]
    /\ sout = NotRun
    /\ derived = NotRun
    /\ CoreIdle /\ WebIdle

DetectMistakes ==
    /\ sout = NotRun
    /\ sout' = [ common_mistakes |-> detect_common_mistakes(sin.entries) ]
    /\ UNCHANGED <<sin, derived, coreVars, webVars>>

NextMistakes == DetectMistakes

SpecMistakes == InitMistakes /\ [][NextMistakes]_vars

\* ------------------------------------------- insights: strong and weak students
\* grouped_data.items(): the questions in the order group_by_question met them.
QuestionOrder == <<"q1", "q2">>

Questions(g) == SelectSeq(QuestionOrder, LAMBDA q : q \in DOMAIN g)

\* The entries in the order of the two nested loops over grouped_data.
Rows(g) ==
    Concat([ k \in 1..Len(Questions(g)) |->
               [ i \in 1..Len(g[Questions(g)[k]]) |->
                   [ question |-> Questions(g)[k],
                     student_id |-> g[Questions(g)[k]][i].student_id,
                     answer |-> g[Questions(g)[k]][i].answer ] ] ])

\* The keys of a dictionary filled row by row: each student once, in the
\* order of first appearance.
RECURSIVE StudentOrder(_)
StudentOrder(rows) ==
    IF rows = <<>> THEN <<>>
    ELSE LET before == StudentOrder(SubSeq(rows, 1, Len(rows) - 1))
             st == rows[Len(rows)].student_id
         IN  IF st \in Range(before) THEN before ELSE Append(before, st)

\* The slices strong_students[:10] and weak_students[:10].
ListCap == 10

\* The score identify_strong_weak_students gives one answer of a question
\* whose insight lists the frequent answers `frequent`.
answer_score(answer, frequent) ==
    LET answer_length == Len(answer)
        tier == IF answer_length >= 10 THEN 30
                ELSE IF answer_length >= 5 THEN 20
                ELSE 5
        penalised == IF answer_length <= 4 THEN tier - 10 ELSE tier
    IN  \* if insights[question]["frequent_answers"]: ... if not is_common: score += 20
        IF frequent # <<>> /\ answer \notin Range(frequent) THEN penalised + 20
        ELSE penalised

\* list.sort(key=avg_score): stable, ascending.
RECURSIVE SortAscending(_)
SortAscending(s) ==
    IF s = <<>> THEN <<>>
    ELSE LET sorted == SortAscending(SubSeq(s, 1, Len(s) - 1))
             x == s[Len(s)]
             keep == Cardinality({ i \in 1..Len(sorted) : sorted[i].avg_score <= x.avg_score })
         IN  SubSeq(sorted, 1, keep) \o <<x>> \o SubSeq(sorted, keep + 1, Len(sorted))

\* list.sort(key=avg_score, reverse=True): stable, descending.
RECURSIVE SortDescending(_)
SortDescending(s) ==
    IF s = <<>> THEN <<>>
    ELSE LET sorted == SortDescending(SubSeq(s, 1, Len(s) - 1))
             x == s[Len(s)]
             keep == Cardinality({ i \in 1..Len(sorted) : sorted[i].avg_score >= x.avg_score })
         IN  SubSeq(sorted, 1, keep) \o <<x>> \o SubSeq(sorted, keep + 1, Len(sorted))

\* The first loop of identify_strong_weak_students: the dictionary
\* student_scores after the given rows.
RECURSIVE student_scores(_, _)
student_scores(rows, insights) ==
    IF rows = <<>> THEN <<>>
    ELSE LET before == student_scores(SubSeq(rows, 1, Len(rows) - 1), insights)
             r == rows[Len(rows)]
             score == answer_score(r.answer, insights[r.question].frequent_answers)
         IN  IF r.student_id \in DOMAIN before
             THEN [before EXCEPT ![r.student_id] =
                      [ scores |-> Append(@.scores, score),
                        answer_lengths |-> Append(@.answer_lengths, Len(r.answer)) ]]
             ELSE (r.student_id :> [ scores |-> <<score>>,
                                     answer_lengths |-> <<Len(r.answer)>> ]) @@ before

\* student_data of the second loop; avg_score and avg_answer_length in tenths.
student_data(student_id, data) ==
    [ student_id |-> student_id,
      avg_score |-> RoundHalfEven(10 * SumSeq(data.scores), Len(data.scores)),
      avg_answer_length |->
          RoundHalfEven(10 * SumSeq(data.answer_lengths), Len(data.answer_lengths)) ]

\* The list the second loop appends a student to: avg_score >= 40, else
\* avg_score <= 20, on the unrounded average.
student_list(data) ==
    IF SumSeq(data.scores) >= 40 * Len(data.scores) THEN "strong"
    ELSE IF SumSeq(data.scores) <= 20 * Len(data.scores) THEN "weak"
    ELSE "average"

\* The list named `which` as the second loop leaves it.
Appended(ids, scores, which) ==
    LET sel == SelectSeq(ids, LAMBDA st : student_list(scores[st]) = which)
    IN  [ k \in 1..Len(sel) |-> student_data(sel[k], scores[sel[k]]) ]

identify_strong_weak_students_cut_first(grouped_data, insights) ==
    LET rows == Rows(grouped_data)
        ids == StudentOrder(rows)
        scores == student_scores(rows, insights)
        strong_students == Appended(ids, scores, "strong")
        weak_students == Appended(ids, scores, "weak")
        average_students == Appended(ids, scores, "average")
    IN  [ student_scores |-> [ st \in DOMAIN scores |-> scores[st].scores ],
          strong |-> SortDescending(SubSeq(strong_students, 1, Min(ListCap, Len(strong_students)))),
          weak |-> SortAscending(SubSeq(weak_students, 1, Min(ListCap, Len(weak_students)))),
          average |-> SortDescending(average_students) ]

\* identify_strong_weak_students(grouped_data, insights, clusters, weak_concepts);
\* clusters and weak_concepts are not read.  student_scores is the function's
\* dictionary of per-answer scores, kept beside the three lists it returns.
identify_strong_weak_students(grouped_data, insights) ==
    LET rows == Rows(grouped_data)
        ids == StudentOrder(rows)
        scores == student_scores(rows, insights)
        strong_students == SortDescending(Appended(ids, scores, "strong"))
        weak_students == SortAscending(Appended(ids, scores, "weak"))
        average_students == SortDescending(Appended(ids, scores, "average"))
    IN  [ student_scores |-> [ st \in DOMAIN scores |-> scores[st].scores ],
          strong |-> SubSeq(strong_students, 1, Min(ListCap, Len(strong_students))),
          weak |-> SubSeq(weak_students, 1, Min(ListCap, Len(weak_students))),
          average |-> average_students ]

\* What a student hands in: "ok" the answer "ok" to q1, "long" an answer of at
\* least 10 words to q1 that no other student gives, "medium" one of 5 to 9
\* words, "brief" one of at most 4 words, and "both" a long answer to q1 and
\* a brief one to q2.  The students of a class are numbered in file order.
Profiles == <<"ok", "long", "medium", "brief", "both">>

MaxStudents == 11

Repeat(x, n) == [ k \in 1..n |-> x ]
Reverse(s) == [ k \in 1..Len(s) |-> s[Len(s) + 1 - k] ]

\* The classes: by how many students hand in what, in the order of Profiles
\* or in the opposite order; up to `most` hand in "ok", up to `most` "long",
\* and up to two each of the other kinds.
ClassProfiles(most) ==
    LET Blocks(n) == Concat([ k \in 1..Len(Profiles) |-> Repeat(Profiles[k], n[k]) ])
        counts == { <<ok, long, medium, brief, both>> :
                      ok \in 0..most, long \in 0..most,
                      medium \in 0..2, brief \in 0..2, both \in 0..2 }
    IN  UNION { { Blocks(n), Reverse(Blocks(n)) } : n \in counts } \ { <<>> }

\* The answer of the j-th student of a class who hands in an answer of this
\* kind: they differ in length.
LongAnswer(j) == Repeat("very", 9 + j)
MediumAnswer(j) == Repeat("quite", 4 + j)
BriefAnswer(j) == Repeat("no", j)

\* How many of the first i students of class p hand in one of `kinds`.
Rank(p, i, kinds) == Cardinality({ j \in 1..i : p[j] \in kinds })

AnswerToQ1(p, i) ==
    CASE p[i] \in {"long", "both"} -> LongAnswer(Rank(p, i, {"long", "both"}))
      [] p[i] = "medium" -> MediumAnswer(Rank(p, i, {"medium"}))
      [] p[i] = "brief" -> BriefAnswer(Rank(p, i, {"brief"}))
      [] p[i] = "ok" -> << "ok" >>

\* group_by_question of the rows of class p.
ClassData(p) ==
    LET q1 == [ i \in 1..Len(p) |-> Entry(i, AnswerToQ1(p, i)) ]
        both == SelectSeq([ i \in 1..Len(p) |-> i ], LAMBDA i : p[i] = "both")
        q2 == [ k \in 1..Len(both) |-> Entry(both[k], BriefAnswer(k)) ]
    IN  IF q2 = <<>> THEN [ q1 |-> q1 ] ELSE [ q1 |-> q1, q2 |-> q2 ]

\* The field of the insights identify_strong_weak_students reads.
FrequentAnswersOf(g) ==
    [ q \in DOMAIN g |-> [ frequent_answers |-> frequent_answers(AnswersOf(g[q])) ] ]

InitStudents ==
    /\ \E p \in ClassProfiles(MaxStudents) :
           sin = [ grouped_data |-> ClassData(p), insights |-> FrequentAnswersOf(ClassData(p)) ]
    /\ sout = NotRun
    /\ derived = NotRun
    /\ CoreIdle /\ WebIdle

IdentifyStudents ==
    /\ sout = NotRun
    /\ sout' = identify_strong_weak_students(sin.grouped_data, sin.insights)
    /\ UNCHANGED <<sin, derived, coreVars, webVars>>

NextStudents == IdentifyStudents

SpecStudents == InitStudents /\ [][NextStudents]_vars

\* ------------------------------------------------ feedback for each student
\* The dictionary student_data upload fills from the grouped rows: for each
\* student the answers by question, a later row of the same student and
\* question replacing the earlier one.
RECURSIVE student_answers(_)
student_answers(rows) ==
    IF rows = <<>> THEN <<>>
    ELSE LET before == student_answers(SubSeq(rows, 1, Len(rows) - 1))
             r == rows[Len(rows)]
             mine == IF r.student_id \in DOMAIN before THEN before[r.student_id].answers
                     ELSE <<>>
         IN  (r.student_id :>
                 [ student_id |-> r.student_id,
                   answers |-> (r.question :> r.answer) @@ mine ]) @@ before

\* generate_student_feedback(student_data, question_insights, clusters,
\* weak_concepts); clusters and weak_concepts are not read.  The suggestion
\* text goes with pattern_status and is left out; class_avg_similarity is in
\* tenths of a percent.
generate_student_feedback(s_data, question_insights) ==
    [ q_id \in DOMAIN s_data.answers |->
        LET insights == question_insights[q_id]
            avg_sim == insights.avg_similarity
        IN  [ answer |-> s_data.answers[q_id],
              pattern_status |-> IF avg_sim > 60 THEN "common answer pattern"
                                 ELSE IF avg_sim > 30 THEN "moderate variation"
                                 ELSE "unique perspective",
              is_common |-> s_data.answers[q_id] \in Range(insights.frequent_answers),
              total_responses |-> insights.total_responses,
              class_avg_similarity |-> 10 * avg_sim ] ]

MaxRows == 3

\* The rows of a small file: two students, answers to q1 and at most one to
\* q2; a student can have more than one row for a question.
FeedbackRows ==
    { Entry(st, a) : st \in {"s1", "s2"}, a \in { <<"cat">>, <<"dog">>, <<"cat", "dog">> } }

FeedbackData(most) ==
    { [ q1 |-> r ] : r \in SeqsUpTo(FeedbackRows, most) \ { <<>> } }
    \cup { [ q1 |-> r, q2 |-> <<e>> ] :
             r \in SeqsUpTo(FeedbackRows, most) \ { <<>> },
             e \in { Entry("s1", <<"cat">>), Entry("s2", <<"dog">>) } }

InitFeedback ==
    /\ \E g \in FeedbackData(MaxRows) :
           sin = [ grouped_data |-> g,
                   insights |-> [ q \in DOMAIN g |-> analyze_question(AnswersOf(g[q])) ] ]
    /\ sout = NotRun
    /\ derived = NotRun
    /\ CoreIdle /\ WebIdle

\* The two loops of upload that build student_data and student_feedback.
StudentFeedback ==
    /\ sout = NotRun
    /\ sout' = LET data == student_answers(Rows(sin.grouped_data))
               IN  [ student_feedback |->
                       [ st \in DOMAIN data |->
                           generate_student_feedback(data[st], sin.insights) ] ]
    /\ UNCHANGED <<sin, derived, coreVars, webVars>>

NextFeedback == StudentFeedback

SpecFeedback == InitFeedback /\ [][NextFeedback]_vars

\* ------------------------------------------------------------------ claims
Clustered == pc \in {"weak", "score", "explain", "done"}
Analyzed == pc \in {"cluster", "weak", "score", "explain", "done"}

Occurrences(a, s) == Cardinality({ i \in 1..Len(s) : s[i] = a })

AllIdentical(s) == Len(s) >= 2 /\ Cardinality(Range(s)) = 1

C2_OverrideRead ==
    \A s \in Sessions :
        (response # NotRun /\ response.kind = "report" /\ response.session = s) =>
            \A q \in DOMAIN written[s] :
                response.body.questions[q].teaching_action = written[s][q]

\* C3: on no answers, one answer, identical answers and answers without
\* vocabulary, every component returns a result; in particular the analysis
\* of the question does not raise.
C3_NoComponentRaises ==
    (Analyzed /\ (Len(answers) < 2 \/ AllIdentical(answers) \/ VectorizeFails(answers)))
        => ~ins.raised

\* C4: no answer string occurs in two different clusters.
C4_NonOverlappingByValue ==
    Clustered =>
        \A c, d \in 1..Len(cl.clusters) :
            c # d => Range(cl.clusters[c]) \cap Range(cl.clusters[d]) = {}

\* C5: both scores of calculate_scores lie between 0 and 100.
C5_ScoreBounds ==
    sout # NotRun =>
        /\ 0 <= sout.insight_score /\ sout.insight_score <= 10000
        /\ 0 <= sout.confidence_score /\ sout.confidence_score <= 10000

\* Both scores at their upper end, the confidence score by its cap.
C5_Witness ==
    /\ sout # NotRun
    /\ sout.insight_score = 10000
    /\ sout.confidence_score = 10000
    /\ sin.total * 10 + sin.nclusters * 15 > 100

\* C6: the insight of every answer set has 0 <= avg_similarity <= 1, and
\* avg_similarity = 1 for two or more identical answers.
C6_SimilarityBounds ==
    Analyzed =>
        /\ ~ins.raised
        /\ 0 <= ins.avg_similarity /\ ins.avg_similarity <= 100
        /\ AllIdentical(answers) => ins.avg_similarity = 100

\* C8: no cluster is empty, and at least 2 distinct answers with a non-empty
\* vocabulary give between 2 and max_clusters clusters holding all answers.
C8_ClusterCount ==
    Clustered =>
        /\ \A c \in 1..Len(cl.clusters) : cl.clusters[c] # <<>>
        /\ (Cardinality(Range(answers)) >= 2 /\ ~VectorizeFails(answers)) =>
              /\ 2 <= Len(cl.clusters) /\ Len(cl.clusters) <= max_clusters
              /\ Len(Concat(cl.clusters)) = Len(answers)

\* KMeans grouped four answers over three different points with max_clusters = 2.
C8_Witness ==
    /\ Clustered
    /\ cl.path = "kmeans"
    /\ max_clusters = 2
    /\ Len(answers) = MaxAnswers
    /\ Cardinality(Range(answers)) >= 3

\* C9: one answer gives no clusters, avg_similarity 0.0 and total_responses 1,
\* and the analysis does not raise.
C9_SingleAnswer ==
    (Clustered /\ Len(answers) = 1) =>
        /\ cl.clusters = <<>>
        /\ ~ins.raised
        /\ ins.avg_similarity = 0
        /\ ins.total_responses = 1

\* A single answer, here one made of a stop word only, has been analysed and clustered.
C9_Witness == Clustered /\ answers = << <<"the">> >>

\* C10: two or more identical answers give exactly one cluster holding all of
\* them, returned by the all-identical test, before the vectorizer is called.
C10_IdenticalSingleCluster ==
    (Clustered /\ AllIdentical(answers)) =>
        cl.clusters = <<answers>> /\ cl.path = "identical"

\* Three identical answers made of a stop word only have been clustered.
C10_Witness ==
    /\ Clustered
    /\ answers = << <<"the">>, <<"the">>, <<"the">> >>
    /\ cl.clusters = <<answers>>

\* C11: whenever two sessions' export requests interleave, the report a
\* request returns is the one built from the analysis of its own session.
C11_OwnReport ==
    \A s \in Sessions :
        ( /\ response # NotRun
          /\ response.kind = "report"
          /\ response.session = s
          /\ session[s].analysis_id # NoAnalysis ) =>
            response.body = report_data(load_analysis_from_file(session[s].analysis_id))

\* C12: no step overwrites or removes an analysis file stored before it, on
\* upload or on save_feedback, and the analysis_id of every session names the
\* file holding what that session's own latest upload computed.
C12_FreshRunId ==
    /\ [][ \A i \in 1..Len(files) : i <= Len(files') /\ files'[i] = files[i] ]_vars
    /\ [](\A s \in Sessions :
             session[s].analysis_id # NoAnalysis =>
                 load_analysis_from_file(session[s].analysis_id) = uploaded[s])

\* Both sessions hold the analysis of an upload of their own, b2's stored
\* before b1's, and the two analyses differ.
C12_Witness ==
    /\ session["b2"].analysis_id = 1
    /\ session["b1"].analysis_id = 2
    /\ files[1] # files[2]

\* C13: a save_feedback request that succeeds stores one new analysis which
\* equals the one it loaded except for teaching_action of one question's
\* summary, which is the text submitted; every other top-level field, every
\* other summary, every other field of that summary and every file stored
\* before are as they were.
C13_FeedbackFrame ==
    [][ ( /\ response' # NotRun
          /\ response'.route = "save_feedback"
          /\ response'.kind = "json_ok" ) =>
            LET s == response'.session
                old == load_analysis_from_file(session[s].analysis_id)
                new == files'[Len(files')]
            IN  /\ Len(files') = Len(files) + 1
                /\ \A i \in 1..Len(files) : files'[i] = files[i]
                /\ DOMAIN new = DOMAIN old
                /\ \A k \in DOMAIN old \ {"summaries"} : new[k] = old[k]
                /\ DOMAIN new.summaries = DOMAIN old.summaries
                /\ \E q \in DOMAIN old.summaries :
                      /\ q \in DOMAIN written'[s]
                      /\ new.summaries[q].teaching_action = written'[s][q]
                      /\ \A k \in DOMAIN old.summaries[q] \ {"teaching_action"} :
                             new.summaries[q][k] = old.summaries[q][k]
                      /\ \A q2 \in DOMAIN old.summaries \ {q} :
                             new.summaries[q2] = old.summaries[q2]
      ]_vars

\* save_feedback has stored a second file in which q1 carries the submitted
\* text, next to the first file with the generated text.
C13_Witness ==
    /\ response # NotRun
    /\ response.route = "save_feedback"
    /\ response.kind = "json_ok"
    /\ Len(files) = 2
    /\ files[2].summaries["q1"].teaching_action = "T2"
    /\ files[1].summaries["q1"].teaching_action \in {ReTeach, EncourageDetail, Reinforce}

WeakScenario ==
    << <<"ok">>, <<"fine">>, <<"good", "job">>, <<"I", "understand", "completely", "now">> >>

\* C14 as stated: detect_weak_concepts on "ok", "fine", "good job",
\* "I understand completely now" returns short_answers = 3.
C14_ScenarioThree ==
    (weak # NotRun /\ answers = WeakScenario) => weak.short_answers = 3

\* C14, amended: on these four answers, of 1, 1, 2 and 4 words,
\* detect_weak_concepts returns short_answers = 4.
C14_ScenarioFour ==
    (weak # NotRun /\ answers = WeakScenario) => weak.short_answers = 4

\* detect_weak_concepts has run on the four answers of the scenario.
C14_Witness ==
    /\ weak # NotRun
    /\ answers = WeakScenario
    /\ \A i \in 1..Len(answers) : Len(answers[i]) <= 4

SeverityOf(risk_level) ==
    CASE risk_level = "High" -> "high"
      [] risk_level = "Medium" -> "medium"
      [] risk_level = "Low" -> "low"

\* C15: the severity the transparency report gives for short_answers is the
\* risk_level of the summary computed from the same short_answers and
\* total_responses.
C15_SeverityIsRisk ==
    derived # NotRun =>
        \A i \in 1..Len(derived.weak_concept_explanations) :
            derived.weak_concept_explanations[i].concept_type = "short_answers" =>
                derived.weak_concept_explanations[i].severity =
                    SeverityOf(derived.summary.risk_level)

\* C16: on two or more answers, not all identical, from which the vectorizer
\* gets no vocabulary, cluster_answers returns one cluster, the answer list as
\* it came, from the handler of the vectorizer's error and not from the
\* KMeans grouping or the positional split.
C16_NoVocabularySingleCluster ==
    ( /\ Clustered
      /\ Len(answers) >= 2
      /\ ~AllIdentical(answers)
      /\ VectorizeFails(answers) ) =>
        cl.clusters = <<answers>> /\ cl.path = "no_vocabulary"

\* Three different answers of stop words only, more than max_clusters, have
\* been clustered.
C16_Witness ==
    /\ Clustered
    /\ answers = << <<"the">>, <<"is">>, <<"the", "is">> >>
    /\ max_clusters = 2
    /\ Len(cl.clusters) = 1

\* C17: when KMeans gives every answer the same label, cluster_answers
\* returns the positional split: one cluster per answer, in order, for at
\* most max_clusters answers; otherwise max_clusters clusters which
\* concatenate to the answer list, all but the last of
\* floor(len / max_clusters) answers.
C17_EvenPositionalSplit ==
    (Clustered /\ cl.path = "split") =>
        IF Len(answers) <= max_clusters
        THEN /\ Len(cl.clusters) = Len(answers)
             /\ \A i \in 1..Len(answers) : cl.clusters[i] = <<answers[i]>>
        ELSE /\ Len(cl.clusters) = max_clusters
             /\ \A i \in 1..(max_clusters - 1) :
                    Len(cl.clusters[i]) = Len(answers) \div max_clusters
             /\ Len(cl.clusters[max_clusters]) =
                    Len(answers) - (max_clusters - 1) * (Len(answers) \div max_clusters)
             /\ Concat(cl.clusters) = answers

\* KMeans gave one label to four answers with max_clusters = 3: the last
\* cluster of the split holds two answers.
C17_Witness ==
    /\ Clustered
    /\ cl.path = "split"
    /\ Len(answers) = 4
    /\ max_clusters = 3
    /\ Len(cl.clusters[3]) = 2

\* The insight score before the cap and the rounding, times 100 * Denominator:
\* avg_similarity*40 + (0 if low_vocab_diversity else 1)*20
\* + (1 - short_answers/total)*20 + 20, with short_answers/total taken as 0
\* for no responses.
Denominator == IF sin.total = 0 THEN 1 ELSE sin.total

RawInsight ==
    40 * sin.avg * Denominator
    + (IF sin.low_vocab THEN 0 ELSE 2000 * Denominator)
    + (IF sin.total = 0 THEN 2000 ELSE 2000 * (sin.total - sin.short))
    + 2000 * Denominator

\* C18 as stated: insight_score is exactly the capped sum, it is at least 20,
\* and confidence_score = min(100, total_responses*10 + cluster_count*15).
C18_ExactScores ==
    sout # NotRun =>
        /\ sout.insight_score * Denominator = Min(RawInsight, 10000 * Denominator)
        /\ sout.insight_score >= 2000
        /\ sout.confidence_score = 100 * Min(100, sin.total * 10 + sin.nclusters * 15)

\* C18, amended: insight_score is the capped sum rounded to 2 decimals (within
\* half a hundredth of it), it is at least 20, and
\* confidence_score = min(100, total_responses*10 + cluster_count*15).
C18_RoundedScores ==
    sout # NotRun =>
        LET diff == 2 * (sout.insight_score * Denominator
                           - Min(RawInsight, 10000 * Denominator))
        IN  /\ -Denominator <= diff /\ diff <= Denominator
            /\ sout.insight_score >= 2000
            /\ sout.confidence_score = 100 * Min(100, sin.total * 10 + sin.nclusters * 15)

\* Scores of a question whose capped sum, 33.33..., has more than 2 decimals.
C18_Witness ==
    /\ sout # NotRun
    /\ sin.total = 3 /\ sin.short = 1 /\ sin.avg = 0 /\ sin.low_vocab
    /\ sout.insight_score = 3333

\* C19: understanding_level is High for insight_score >= 75, Moderate from 50
\* up to 75 and Low below, and the recommendation of the class feedback is the
\* strong one exactly for High, the moderate one exactly for Moderate and the
\* review one exactly for Low.
C19_LevelsAgree ==
    derived # NotRun =>
        LET level == derived.summary.understanding_level
            tier == derived.class_feedback.recommendation
        IN  /\ level = "High" <=> sout.insight_score >= 7500
            /\ level = "Moderate" <=>
                   (5000 <= sout.insight_score /\ sout.insight_score < 7500)
            /\ level = "Low" <=> sout.insight_score < 5000
            /\ tier = StrongUnderstanding <=> level = "High"
            /\ tier = ModerateUnderstanding <=> level = "Moderate"
            /\ tier = ReviewRequired <=> level = "Low"
            /\ derived.class_feedback.understanding_level = level

\* A question scored exactly 75 is High with the strong recommendation.
C19_Witness ==
    /\ derived # NotRun
    /\ sout.insight_score = 7500
    /\ derived.summary.understanding_level = "High"
    /\ derived.class_feedback.recommendation = StrongUnderstanding

\* C20: teaching_action is the re-teach message whenever understanding_level
\* is Low, whatever the risk_level; otherwise the encourage-detail message
\* when risk_level is High; otherwise the reinforcement message.
C20_ActionPriority ==
    derived # NotRun =>
        LET summary == derived.summary
        IN  /\ summary.understanding_level = "Low" => summary.teaching_action = ReTeach
            /\ (summary.understanding_level # "Low" /\ summary.risk_level = "High") =>
                   summary.teaching_action = EncourageDetail
            /\ (summary.understanding_level # "Low" /\ summary.risk_level # "High") =>
                   summary.teaching_action = Reinforce

\* A question with Low understanding and High risk got the re-teach message.
C20_Witness ==
    /\ derived # NotRun
    /\ derived.summary.understanding_level = "Low"
    /\ derived.summary.risk_level = "High"
    /\ derived.summary.teaching_action = ReTeach


\* The rows of student st in the order in which the code meets them.
RowsOfStudent(g, st) == SelectSeq(Rows(g), LAMBDA r : r.student_id = st)

\* The length-tier score of an answer: +30 from 10 words, +20 from 5 words,
\* else +5, and -10 for an answer of at most 4 words.
LengthTier(answer) ==
    (IF Len(answer) >= 10 THEN 30 ELSE IF Len(answer) >= 5 THEN 20 ELSE 5)
    - (IF Len(answer) <= 4 THEN 10 ELSE 0)

\* C21: in identify_strong_weak_students every answer that is not among the
\* frequent answers of its question scores its length tier plus 20, and every
\* other answer its length tier, also in a question without frequent answers.
C21_UniquenessBonus ==
    sout # NotRun =>
        \A st \in DOMAIN sout.student_scores :
            \A k \in 1..Len(sout.student_scores[st]) :
                LET r == RowsOfStudent(sin.grouped_data, st)[k]
                IN  sout.student_scores[st][k] =
                        LengthTier(r.answer)
                        + (IF r.answer \in Range(sin.insights[r.question].frequent_answers)
                           THEN 0 ELSE 20)

\* The sum and the number of the scores of student st.
ScoreSum(st) == SumSeq(sout.student_scores[st])
ScoreCount(st) == Len(sout.student_scores[st])

StrongOnes == { st \in DOMAIN sout.student_scores : ScoreSum(st) >= 40 * ScoreCount(st) }
WeakOnes == { st \in DOMAIN sout.student_scores : ScoreSum(st) <= 20 * ScoreCount(st) }
AverageOnes == (DOMAIN sout.student_scores \ StrongOnes) \ WeakOnes

ListedIds(list) == { list[i].student_id : i \in 1..Len(list) }

\* The average of student a is at most the one of student b.
AtMost(a, b) == ScoreSum(a) * ScoreCount(b) <= ScoreSum(b) * ScoreCount(a)

\* C22: a student whose per-answer scores average to 40 or more is strong, to
\* 20 or less weak, otherwise average; the three lists are disjoint and list
\* no student twice; the strong list holds the (at most) 10 strong students
\* of highest average in descending order, the weak list the (at most) 10 weak
\* students of lowest average in ascending order, the average list every
\* average student; avg_score is the average rounded to one decimal.
C22_Classification ==
    sout # NotRun =>
        /\ ListedIds(sout.strong) \subseteq StrongOnes
        /\ ListedIds(sout.weak) \subseteq WeakOnes
        /\ ListedIds(sout.average) = AverageOnes
        /\ Len(sout.strong) = Min(ListCap, Cardinality(StrongOnes))
        /\ Len(sout.weak) = Min(ListCap, Cardinality(WeakOnes))
        /\ \A list \in {sout.strong, sout.weak, sout.average} :
               /\ Cardinality(ListedIds(list)) = Len(list)
               /\ \A i \in 1..Len(list) :
                      list[i].avg_score =
                          RoundHalfEven(10 * ScoreSum(list[i].student_id),
                                        ScoreCount(list[i].student_id))
        /\ \A i \in 1..Len(sout.strong), j \in 1..Len(sout.strong) :
               i < j => sout.strong[i].avg_score >= sout.strong[j].avg_score
        /\ \A i \in 1..Len(sout.weak), j \in 1..Len(sout.weak) :
               i < j => sout.weak[i].avg_score <= sout.weak[j].avg_score
        /\ \A st \in StrongOnes \ ListedIds(sout.strong) :
               \A i \in 1..Len(sout.strong) : AtMost(st, sout.strong[i].student_id)
        /\ \A st \in WeakOnes \ ListedIds(sout.weak) :
               \A i \in 1..Len(sout.weak) : AtMost(sout.weak[i].student_id, st)

\* More than ten strong students of different averages: the strong list is cut.
C22_Witness ==
    /\ sout # NotRun
    /\ Cardinality(StrongOnes) > ListCap
    /\ Len(sout.strong) = ListCap
    /\ sout.strong[1].avg_score > sout.strong[ListCap].avg_score
    /\ \E st \in StrongOnes \ ListedIds(sout.strong) :
           ScoreSum(st) = 40 * ScoreCount(st)

\* More than ten weak students of different averages: the weak list is cut.
C22_WeakCut ==
    /\ sout # NotRun
    /\ Cardinality(WeakOnes) > ListCap
    /\ sout.weak[1].avg_score < sout.weak[ListCap].avg_score


\* The answer ends in a full stop, an exclamation mark or a question mark.
TerminalPunctuation(a) == a # <<>> /\ FinalChar(a[Len(a)]) \in {".", "!", "?"}

\* The three detectors as the specification states them.
Detected(type, a) ==
    CASE type = "short_answer" -> Len(a) <= 3
      [] type = "no_content" -> LowerSeq(a) \in NoContentAnswers
      [] type = "incomplete" -> ~TerminalPunctuation(a) /\ Len(a) < 5

\* C23: detect_common_mistakes reports for each of the three detectors one
\* entry {type, count, percentage} exactly when at least one answer matches,
\* with count the number of matching answers and percentage count / total * 100
\* rounded to one decimal, and no entry for a detector nothing matches.
C23_MistakeEntries ==
    sout # NotRun =>
        LET entries == sin.entries
            out == sout.common_mistakes
        IN  \A type \in {"short_answer", "no_content", "incomplete"} :
                LET count == Cardinality({ i \in 1..Len(entries) : Detected(type, entries[i]) })
                    found == { k \in 1..Len(out) : out[k].type = type }
                IN  /\ count = 0 => found = {}
                    /\ count > 0 =>
                           /\ Cardinality(found) = 1
                           /\ \A k \in found :
                                  /\ out[k].count = count
                                  /\ out[k].percentage =
                                         RoundHalfEven(count * 1000, Len(entries))


\* The words of all answers, and the distinct ones among them.
TotalWords == SumSeq([ i \in 1..Len(answers) |-> Len(answers[i]) ])
DistinctWords == UNION { Range(answers[i]) : i \in 1..Len(answers) }

\* C24: detect_weak_concepts returns short_answers = the number of answers of
\* at most 4 words and low_vocab_diversity = (distinct words / total words <
\* 0.4) over all answers together, the ratio being 0 and the flag true when
\* there is no word at all; the answer list is left as it was.
C24_WeakSignals ==
    /\ [](weak # NotRun =>
            /\ weak.short_answers =
                   Cardinality({ i \in 1..Len(answers) : Len(answers[i]) <= 4 })
            /\ weak.low_vocab_diversity =
                   (IF TotalWords = 0 THEN TRUE
                    ELSE 10 * Cardinality(DistinctWords) < 4 * TotalWords))
    /\ [][answers' = answers]_vars

\* A ratio of exactly 0.4 (2 distinct words among 5), which does not set the flag.
C24_Witness ==
    /\ weak # NotRun
    /\ TotalWords = 5 /\ Cardinality(DistinctWords) = 2
    /\ ~weak.low_vocab_diversity

\* No answers, so no words: the flag is set.
C24_NoWords ==
    /\ weak # NotRun
    /\ answers = <<>>
    /\ weak.low_vocab_diversity


\* The answers cluster_answers put into clusters.
ClusteredAnswers == SumSeq([ i \in 1..Len(cl.clusters) |-> Len(cl.clusters[i]) ])

\* C25: in the transparency report of a question the class_percentage of each
\* cluster is its size over the number of clustered answers (to one decimal),
\* and the cluster is "Highly Common" exactly when it holds more than 40% of
\* them, "Moderately Common" exactly when more than 20% and at most 40%, with
\* or without frequent answers.
C25_ClusterShare ==
    pc = "done" =>
        \A i \in 1..Len(derived.cluster_explanations) :
            LET e == derived.cluster_explanations[i]
                size == Len(cl.clusters[i])
            IN  /\ e.class_percentage = RoundHalfEven(1000 * size, ClusteredAnswers)
                /\ e.classification = "Highly Common" <=> 100 * size > 40 * ClusteredAnswers
                /\ e.classification = "Moderately Common" <=>
                       (100 * size > 20 * ClusteredAnswers /\ 100 * size <= 40 * ClusteredAnswers)

\* The same for the questions no answer of which is repeated.
C25_WithoutFrequentAnswers ==
    (pc = "done" /\ ins.frequent_answers = <<>>) => C25_ClusterShare

\* C30: the transparency report of a question holds exactly one weak-concept
\* explanation, the one of the short_answers count, and none for the
\* low_vocab_diversity flag.
C30_OneWeakExplanation ==
    pc = "done" =>
        /\ Len(derived.weak_concept_explanations) = 1
        /\ derived.weak_concept_explanations[1].concept_type = "short_answers"


\* The routes that read or write stored analysis data.
GatedRoutes ==
    {"upload", "export_pdf", "export_text", "export_excel", "save_feedback", "get_transparency"}

\* The routes that read the analysis of the session.
ReadingRoutes == GatedRoutes \ {"upload"}

\* The response says that there is no analysis data.
NoAnalysisData(r) ==
    \/ r.kind = "redirect_index" /\ r.body = "No analysis data to export"
    \/ r.kind = "json_error" /\ r.body = "No analysis data"

\* C26: a request to upload, export_pdf, export_text, export_excel,
\* save_feedback or get_transparency in a session without teacher_id is
\* answered by the redirect to the login page or by the error "Not logged in",
\* and leaves the session and the stored analyses as they were.
C26_LoginGate ==
    [][ \A s \in Sessions :
          (/\ session[s].teacher_id = NoTeacher
           /\ response'.session = s
           /\ response'.route \in GatedRoutes)
          => /\ \/ response'.kind = "redirect_login"
                \/ response'.kind = "json_error" /\ response'.body = "Not logged in"
             /\ session' = session
             /\ files' = files ]_vars

\* A session that has logged out asks for a transparency report while
\* analyses are stored.
C26_Witness ==
    /\ response # NotRun
    /\ response.route = "get_transparency"
    /\ response.kind = "json_error" /\ response.body = "Not logged in"
    /\ session[response.session].teacher_id = NoTeacher
    /\ files # <<>>

\* C27: logout leaves the session without teacher_id and analysis_id; only an
\* upload that completes in the session gives it an analysis_id again; and as
\* long as it has none, every export, save_feedback and get_transparency
\* request of a logged-in user of the session is answered with "no analysis
\* data", so that no response carries the analysis uploaded before the logout.
C27_LogoutDropsAnalysis ==
    [][ \A s \in Sessions :
          /\ (response'.session = s /\ response'.route = "logout")
             => session'[s] = [teacher_id |-> NoTeacher, analysis_id |-> NoAnalysis]
          /\ (session[s].analysis_id = NoAnalysis /\ session'[s].analysis_id # NoAnalysis)
             => /\ response'.session = s
                /\ response'.route = "upload" /\ response'.kind = "dashboard"
                /\ session'[s].analysis_id = Len(files')
                /\ Len(files') = Len(files) + 1
          /\ (/\ session[s].analysis_id = NoAnalysis
              /\ session[s].teacher_id # NoTeacher
              /\ response'.session = s
              /\ response'.route \in ReadingRoutes)
             => NoAnalysisData(response') ]_vars

\* A user who logged in after the logout that dropped the session's analysis
\* asks for it and is told that there is no analysis data (with one browser
\* every stored file is an upload of this session, and only logout takes the
\* analysis_id away).
C27_Witness ==
    /\ response # NotRun
    /\ response.route \in ReadingRoutes
    /\ NoAnalysisData(response)
    /\ session[response.session].teacher_id # NoTeacher
    /\ session[response.session].analysis_id = NoAnalysis
    /\ files # <<>>

\* C28: a save_feedback request without question_id, without feedback text,
\* or for a question that has no summary in the run of the session, is
\* answered with a failure and writes no file; no stored analysis ever has a
\* summary for a question that is not part of its run.
C28_RejectedFeedback ==
    /\ [][ response'.route = "save_feedback" =>
             \A q \in QuestionIds, fb \in FeedbackTexts :
                 LET s == response'.session
                     data == load_analysis_from_file(session[s].analysis_id)
                 IN  (/\ session[s].teacher_id # NoTeacher
                      /\ data # NotRun
                      /\ (q = "" \/ fb = "" \/ q \notin DOMAIN data.summaries)
                      /\ save_feedback(s, q, fb))
                     => /\ response'.kind \in {"json_error", "error_500"}
                        /\ files' = files ]_vars
    /\ [](\A id \in 1..Len(files) :
             DOMAIN files[id].summaries = DOMAIN files[id].grouped_data)

\* A feedback text for a question that is not part of the run was refused.
C28_Witness ==
    /\ response # NotRun
    /\ response.route = "save_feedback"
    /\ response.kind = "error_500" /\ response.body = "KeyError"
    /\ files # <<>>


\* C29: for every row of the grouped input, the feedback of the row's student
\* has an entry for the row's question with the row's answer, and is_common
\* is true exactly when that answer occurs more than once in the question.
C29_NoAnswerDropped ==
    sout # NotRun =>
        \A q \in DOMAIN sin.grouped_data :
            \A i \in 1..Len(sin.grouped_data[q]) :
                LET r == sin.grouped_data[q][i]
                    fb == sout.student_feedback[r.student_id]
                IN  /\ q \in DOMAIN fb
                    /\ fb[q].answer = r.answer
                    /\ fb[q].is_common =
                           (Occurrences(r.answer, AnswersOf(sin.grouped_data[q])) > 1)

\* No student has two rows for one question.
OneRowEach ==
    \A q \in DOMAIN sin.grouped_data :
        \A i, j \in 1..Len(sin.grouped_data[q]) :
            sin.grouped_data[q][i].student_id = sin.grouped_data[q][j].student_id => i = j

\* The same for the files in which every student answers a question once.
C29_OneRowEach == OneRowEach => C29_NoAnswerDropped

====
